---- MODULE Spec2Model ----
(***************************************************************************)
(* Model of the Ansible modules zammad_ticket and zammad_ticket_idoit.     *)
(* One behaviour is a sequence of invocations of one module with the same  *)
(* task parameters against one remote Zammad ticket: every HTTP call of    *)
(* an invocation is one step, and the remote applies a write when it       *)
(* answers it with a status below 400.                                     *)
(***************************************************************************)
EXTENDS Integers, Sequences, FiniteSets, TLC

\* ------------------------------------------------------------------ bounds
\* Number of consecutive invocations in one behaviour.
MaxRuns == 2
\* Longest firstname / lastname of the owner round-trip specification.
MaxNameLen == 1
\* Most users in a users collection of the owner round-trip specification.
MaxUsers == 2

\* ------------------------------------------------------------- Python None
\* None of a string-valued parameter or lookup result.
None == "None"
\* None of an owner name (names are sequences of characters).
NoOwner == <<"None">>
\* None of an integer (ticket_id, owner id): falsy, like 0.
NoId == 0

\* ------------------------------------------------------------ strings
\* str.isspace() of one character.
IsSpace(c) == c = " "

\* Index of the first character of s at or after i that satisfies / does not
\* satisfy IsSpace, Len(s)+1 when there is none.
RECURSIVE SkipSpace(_, _)
SkipSpace(s, i) ==
    IF i > Len(s) THEN Len(s) + 1
    ELSE IF IsSpace(s[i]) THEN SkipSpace(s, i + 1) ELSE i

RECURSIVE SkipWord(_, _)
SkipWord(s, i) ==
    IF i > Len(s) THEN Len(s) + 1
    ELSE IF IsSpace(s[i]) THEN i ELSE SkipWord(s, i + 1)

\* str.split(maxsplit=1): leading whitespace is dropped, the first word is
\* cut at the first whitespace run, and the remainder (from its first
\* non-blank character to the end, trailing whitespace kept) is the second
\* part; an all-blank remainder yields no second part.
Split1(s) ==
    LET b == SkipSpace(s, 1)
        e == SkipWord(s, b)
        r == SkipSpace(s, e)
    IN  IF b > Len(s) THEN <<>>
        ELSE IF r > Len(s) THEN << SubSeq(s, b, e - 1) >>
        ELSE << SubSeq(s, b, e - 1), SubSeq(s, r, Len(s)) >>

\* str(x).lower() of a bool.
StrLower(b) == IF b THEN "true" ELSE "false"

\* ------------------------------------------------ reference data (remote)
\* The lookup collections the remote serves for users, groups,
\* ticket_states and ticket_priorities.
UsersColl ==
    << [id |-> 1, firstname |-> <<"a">>, lastname |-> <<"a">>, email |-> "c1"],
       [id |-> 2, firstname |-> <<"b">>, lastname |-> <<"b">>, email |-> "c2"] >>
GroupsColl == << [id |-> 1, name |-> "g1"], [id |-> 2, name |-> "g2"] >>
TicketStatesColl == << [id |-> 1, name |-> "open"], [id |-> 2, name |-> "closed"] >>
PrioritiesColl == << [id |-> 1, name |-> "p1"], [id |-> 2, name |-> "p2"] >>

\* A dict with no key.
EmptyDict == [k \in {} |-> None]

\* ------------------------------------------------------------- resolvers
\* Index of the first entry of coll whose id is the given id, 0 if none
\* (the for loop with an early return of the get_* functions).
RECURSIVE FirstById(_, _, _)
FirstById(coll, id, i) ==
    IF i > Len(coll) THEN 0
    ELSE IF coll[i].id = id THEN i ELSE FirstById(coll, id, i + 1)

get_customer_email(ticket_data, customers) ==
    LET i == FirstById(customers, ticket_data.customer_id, 1)
    IN  IF i = 0 THEN None ELSE customers[i].email

get_owner_name(ticket_data, owners) ==
    LET i == FirstById(owners, ticket_data.owner_id, 1)
    IN  IF i = 0 THEN NoOwner
        ELSE owners[i].firstname \o <<" ">> \o owners[i].lastname

\* Index of the first owner with the given first and last name, 0 if none.
RECURSIVE FirstByName(_, _, _, _)
FirstByName(owners, firstname, lastname, i) ==
    IF i > Len(owners) THEN 0
    ELSE IF owners[i].firstname = firstname /\ owners[i].lastname = lastname
         THEN i
         ELSE FirstByName(owners, firstname, lastname, i + 1)

\* get_owner_id raises ValueError when the tuple unpacking of the split
\* does not get exactly two parts.
get_owner_id_raises(owner_name) ==
    owner_name # NoOwner /\ Len(Split1(owner_name)) # 2

\* get_owner_id matching the firstname alone.
get_owner_id_by_firstname(owner_name, owners) ==
    IF owner_name = NoOwner THEN NoId
    ELSE LET parts == Split1(owner_name)
             hits == { i \in 1..Len(owners) : owners[i].firstname = parts[1] }
         IN  IF hits = {} THEN NoId
             ELSE owners[CHOOSE i \in hits : \A j \in hits : i <= j].id

\* The value get_owner_id returns when it does not raise.
get_owner_id(owner_name, owners) ==
    IF owner_name = NoOwner THEN NoId
    ELSE LET parts == Split1(owner_name)
             i == FirstByName(owners, parts[1], parts[2], 1)
         IN  IF i = 0 THEN NoId ELSE owners[i].id

\* get_group_name falling back on the first group.
get_group_name_defaulted(ticket_data, groups) ==
    LET i == FirstById(groups, ticket_data.group_id, 1)
    IN  IF i = 0 THEN groups[1].name ELSE groups[i].name

get_group_name(ticket_data, groups) ==
    LET i == FirstById(groups, ticket_data.group_id, 1)
    IN  IF i = 0 THEN None ELSE groups[i].name

get_ticket_state_name(ticket_data, ticket_states) ==
    LET i == FirstById(ticket_states, ticket_data.state_id, 1)
    IN  IF i = 0 THEN None ELSE ticket_states[i].name

get_priority_name(ticket_data, priorities) ==
    LET i == FirstById(priorities, ticket_data.priority_id, 1)
    IN  IF i = 0 THEN None ELSE priorities[i].name

get_last_article_data(ticket_articles, article_object) ==
    ticket_articles[Len(ticket_articles)][article_object]

\* value is None, for the value of the given key.
IsNone(key, value) == IF key = "owner" THEN value = NoOwner ELSE value = None

\* has_changes without the "is not None" test.
has_changes_none_compared(current_ticket_data, ticket_data) ==
    \E key \in DOMAIN ticket_data :
        current_ticket_data[key] # ticket_data[key]

has_changes(current_ticket_data, ticket_data) ==
    \E key \in DOMAIN ticket_data :
        /\ ~IsNone(key, ticket_data[key])
        /\ current_ticket_data[key] # ticket_data[key]

\* Truthiness of a string parameter: None and "" are falsy.
Truthy(value) == value # None /\ value # ""

\* ------------------------------------------------------------- API client
\* No endpoint argument (endpoint=None).
NoEndpoint == [path |-> None, id |-> NoId]

\* The url make_request builds: the ticket's when ticket_id is truthy, else
\* the endpoint's, else the tickets/ collection.
Url(ticket_id, endpoint) ==
    IF ticket_id # NoId THEN [path |-> "tickets", id |-> ticket_id]
    ELSE IF endpoint.path # None THEN endpoint
    ELSE [path |-> "tickets/", id |-> NoId]

\* data_json: json.dumps(data) if data else None.
DataJson(data) == IF DOMAIN data = {} THEN None ELSE data

\* What fetch_url returns: the status, and whether json.load parses the
\* body (read only when the status is below 400).  The remote answers a GET
\* with 200 or 404 and a write with 200, 201 or 404.
ResponsesOf(statuses) ==
    { r \in [status : statuses, json_ok : BOOLEAN] : r.status >= 400 => ~r.json_ok }
GetResponses == ResponsesOf({200, 404})
WriteResponses == ResponsesOf({200, 201, 404})

\* The status test of make_request with the threshold above 404.
ApiErrorAbove404(resp) == resp.status > 404

\* make_request ends the invocation with fail_json on a status >= 400 ...
\* (module_utils/http_request.py, which zammad_ticket_idoit imports, is the
\* same function).
ApiError(resp) == resp.status >= 400
\* ... and on a body json.load cannot parse.
MalformedResponse(resp) == ~ApiError(resp) /\ ~resp.json_ok
RequestFails(resp) == ApiError(resp) \/ MalformedResponse(resp)

\* ------------------------------------------------------- request payloads
\* The article of a write: built only when body is truthy in update_ticket.
Article(subject, body, internal) ==
    [subject |-> subject, body |-> body, type |-> "note",
     internal |-> StrLower(internal)]

\* The dict comprehension that keeps the keys whose value is not None.
TicketFields(owner, title, group, ticket_state, priority, customer, withCustomer) ==
    LET keys == (IF owner # NoId THEN {"owner_id"} ELSE {})
                \cup (IF title # None THEN {"title"} ELSE {})
                \cup (IF group # None THEN {"group"} ELSE {})
                \cup (IF ticket_state # None THEN {"state"} ELSE {})
                \cup (IF withCustomer /\ customer # None THEN {"customer"} ELSE {})
                \cup (IF priority # None THEN {"priority"} ELSE {})
    IN  [k \in keys |->
            CASE k = "owner_id" -> owner
              [] k = "title" -> title
              [] k = "group" -> group
              [] k = "state" -> ticket_state
              [] k = "customer" -> customer
              [] k = "priority" -> priority]

\* data of create_ticket.
create_ticket_data(owner, customer, title, group, subject, body, internal, ticket_state, priority) ==
    [article |-> Article(subject, body, internal)]
        @@ TicketFields(owner, title, group, ticket_state, priority, customer, TRUE)

\* data of update_ticket: no customer key, and an empty article unless body
\* is truthy.
update_ticket_data(owner, customer, title, group, subject, body, internal, ticket_state, priority) ==
    [article |-> IF Truthy(body) THEN Article(subject, body, internal) ELSE EmptyDict]
        @@ TicketFields(owner, title, group, ticket_state, priority, customer, FALSE)

\* data of close_ticket.
close_ticket_data == [state |-> "closed"]

\* data of change_idoit_object.
change_idoit_object_data(object_id) ==
    [preferences |-> [idoit |-> [object_ids |-> << object_id >>]]]

\* ------------------------------------------------------------ the remote
\* The id of the ticket the remote holds.
TicketId == 1

\* Id of the first entry of coll with the given name, NoId if none.
RECURSIVE IdByName(_, _, _)
IdByName(coll, name, i) ==
    IF i > Len(coll) THEN NoId
    ELSE IF coll[i].name = name THEN coll[i].id ELSE IdByName(coll, name, i + 1)

\* The remote ticket after a PUT to it: exactly the fields the payload
\* carries are set, and a non-empty article becomes the latest article.
ApplyPutTicket(ticket, data) ==
    [ticket EXCEPT
        !.owner_id = IF "owner_id" \in DOMAIN data THEN data.owner_id ELSE @,
        !.title = IF "title" \in DOMAIN data THEN data.title ELSE @,
        !.group_id = IF "group" \in DOMAIN data
                     THEN IdByName(GroupsColl, data.group, 1) ELSE @,
        !.state_id = IF "state" \in DOMAIN data
                     THEN IdByName(TicketStatesColl, data.state, 1) ELSE @,
        !.priority_id = IF "priority" \in DOMAIN data
                        THEN IdByName(PrioritiesColl, data.priority, 1) ELSE @,
        !.idoit_object_ids = IF "preferences" \in DOMAIN data
                             THEN data.preferences.idoit.object_ids ELSE @]

ApplyPutArticles(articles, data) ==
    IF "article" \in DOMAIN data /\ DOMAIN data.article # {}
    THEN Append(articles, [subject |-> data.article.subject,
                           body |-> data.article.body,
                           internal |-> data.article.internal = "true"])
    ELSE articles

\* The remote carries out a write it answers with a status below 400.
RemoteAccepts(resp) == resp.status < 400

\* The remote after it answered a PUT to url with a status below 400.
ApplyPut(rem, url, data) ==
    IF url = [path |-> "tickets", id |-> rem.ticket.id]
    THEN [rem EXCEPT !.ticket = ApplyPutTicket(rem.ticket, data),
                     !.articles = ApplyPutArticles(rem.articles, data)]
    ELSE rem

\* The remote after it answered a POST to tickets/ with a status below 400:
\* a new ticket with the next id.
ApplyPost(rem, data) ==
    [rem EXCEPT !.last_id = @ + 1, !.created = Append(@, data)]

\* ---------------------------------------------------------------- state
VARIABLES
    module,      \* "zammad_ticket" or "zammad_ticket_idoit"
    check_mode,  \* module.check_mode
    params,      \* module.params
    remote,      \* the remote: its ticket, the ticket's articles, created tickets
    pc,          \* position of the running invocation in run_module
    local,       \* run_module's locals: the fetched collections and ticket
    log,         \* the HTTP calls the running invocation has issued
    result,      \* what the invocation exits with (exit_json / fail_json)
    run,         \* number of the running invocation
    history,     \* changed and number of writes of the earlier invocations
    roundtrip    \* the owner round trip: a users collection, an owner id of
                 \* it, and what get_owner_name and get_owner_id make of it

vars == << roundtrip, module, check_mode, params, remote, pc, local, log, result, run, history >>

\* result = dict(changed=False, ticket_id=None, status_code=0, message="")
InitResult ==
    [failed |-> FALSE, changed |-> FALSE, ticket_id |-> NoId,
     status_code |-> 0, message |-> ""]

InitLocal ==
    [users |-> <<>>, groups |-> <<>>, ticket_states |-> <<>>,
     priorities |-> <<>>, ticket_data |-> EmptyDict, ticket_articles |-> <<>>]

\* --------------------------------------------------------------- inputs
\* Values of the task parameters (argument_spec): None when not supplied.
\* The owner is a user's name, a two-part name of no user, a single token,
\* the empty string or a blank string.
OwnerNames ==
    {NoOwner, <<"a", " ", "a">>, <<"b", " ", "a">>, <<"a">>, <<>>, <<" ">>}
CustomerValues == {None, "c1"}
TitleValues == {None, "t1"}
GroupValues == {None, "g1"}
SubjectValues == {None, "s1"}
BodyValues == {None, "b1"}
TicketStateValues == {None, "open", "closed"}
PriorityValues == {None, "p1"}

TicketParams(state, ids) ==
    [state : {state}, ticket_id : ids, owner : OwnerNames,
     customer : CustomerValues, title : TitleValues, group : GroupValues,
     subject : SubjectValues, body : BodyValues, internal : BOOLEAN,
     ticket_state : TicketStateValues, priority : PriorityValues,
     object_id : {None}]

\* state=present without a ticket id / with the id of the remote ticket.
CreateParams == TicketParams("present", {NoId})
UpdateParams == TicketParams("present", {TicketId})

\* state=absent: the close branch reads ticket_id and ticket_state only.
CloseParams ==
    [state : {"absent"}, ticket_id : {NoId, TicketId}, owner : {NoOwner},
     customer : {None}, title : {None}, group : {None}, subject : {None},
     body : {None}, internal : {FALSE}, ticket_state : TicketStateValues,
     priority : {None}, object_id : {None}]

\* zammad_ticket_idoit: ticket_id and object_id.
IdoitParams ==
    [state : {None}, ticket_id : {TicketId}, owner : {NoOwner},
     customer : {None}, title : {None}, group : {None}, subject : {None},
     body : {None}, internal : {FALSE}, ticket_state : {None},
     priority : {None}, object_id : {"o1"}]

\* The remote ticket and its latest article.  u is the user the ticket
\* refers to as owner and customer, k the title, group and priority, s the
\* state, a the latest article's subject and body, i its internal flag, o
\* the i-doit object ids of its preferences.
RemoteOf(u, k, s, a, i, o) ==
    [ticket |-> [id |-> TicketId, owner_id |-> u, customer_id |-> u,
                 title |-> IF k = 1 THEN "t1" ELSE "t2",
                 group_id |-> k, state_id |-> s, priority_id |-> k,
                 idoit_object_ids |-> o],
     articles |-> << [subject |-> IF a = 1 THEN "s1" ELSE "s2",
                      body |-> IF a = 1 THEN "b1" ELSE "b2",
                      internal |-> i] >>,
     last_id |-> TicketId,
     created |-> <<>>]

\* An id no entry of the fetched collections has.
MissingId == 3

\* The tickets an Update meets: the latest article's subject and body go
\* with the title, group and priority (both of the first or both of the
\* second kind); owner/customer, state and internal flag vary freely.  Three
\* more tickets refer to ids their collections do not hold.
Remotes ==
    { RemoteOf(u, k, s, k, i, <<>>) :
        u \in {1, 2}, k \in {1, 2}, s \in {1, 2}, i \in BOOLEAN }
    \cup { RemoteOf(MissingId, MissingId, MissingId, MissingId, FALSE, <<>>),
           RemoteOf(MissingId, 1, 1, 1, FALSE, <<>>),
           RemoteOf(1, 1, MissingId, 1, FALSE, <<>>) }
CloseRemotes == { RemoteOf(1, 1, s, 1, FALSE, <<>>) : s \in {1, 2, MissingId} }
IdoitRemotes == { RemoteOf(1, 1, 1, 1, FALSE, o) : o \in {<<>>, <<"o1">>, <<"o2">>} }

\* No owner round trip is under way.
NoRoundTrip ==
    [users |-> <<>>, owner_id |-> NoId, at |-> "none", name |-> NoOwner,
     raised |-> FALSE, id |-> NoId]

Init ==
    /\ \/ /\ module = "zammad_ticket"
          /\ \/ params \in CreateParams /\ remote = RemoteOf(1, 1, 1, 1, FALSE, <<>>)
             \/ params \in UpdateParams /\ remote \in Remotes
             \/ params \in CloseParams /\ remote \in CloseRemotes
       \/ /\ module = "zammad_ticket_idoit"
          /\ params \in IdoitParams
          /\ remote \in IdoitRemotes
    /\ check_mode \in BOOLEAN
    /\ pc = "start"
    /\ local = InitLocal
    /\ log = <<>>
    /\ result = InitResult
    /\ run = 1
    /\ history = <<>>
    /\ roundtrip = NoRoundTrip

\* ------------------------------------------------------------- the steps
\* module.fail_json: the invocation ends as a failure.
Fail(msg, status_code, ticket_id) ==
    /\ pc' = "failed"
    /\ result' = [failed |-> TRUE, changed |-> FALSE, ticket_id |-> ticket_id,
                  status_code |-> status_code, message |-> msg]

\* make_request's two fail_json calls.
FailRequest(resp) ==
    IF ApiError(resp)
    THEN Fail("API request failed", resp.status, NoId)
    ELSE Fail("Failed to parse JSON response", 0, NoId)

\* except ValueError as e: module.fail_json(msg=str(e), **result)
\* The except clause letting the invocation end as a success.
FailValueErrorSwallowed == pc' = "done" /\ UNCHANGED result

FailValueError == Fail("ValueError", result.status_code, result.ticket_id)

\* fetch_url: one round trip of make_request.
Request(method, ticket_id, endpoint, data, resp) ==
    log' = Append(log, [method |-> method, url |-> Url(ticket_id, endpoint),
                        data |-> DataJson(data), status |-> resp.status,
                        json_ok |-> resp.json_ok])

\* exit_json with a result whose status_code was not updated.
ExitWithoutStatus(changed, ticket_id, status_code, message) ==
    /\ pc' = "done"
    /\ result' = [failed |-> FALSE, changed |-> changed, ticket_id |-> ticket_id,
                  status_code |-> result.status_code, message |-> message]

\* module.exit_json(**result) with the result updated.
Exit(changed, ticket_id, status_code, message) ==
    /\ pc' = "done"
    /\ result' = [failed |-> FALSE, changed |-> changed, ticket_id |-> ticket_id,
                  status_code |-> status_code, message |-> message]

\* A reference-data fetch: get_users, get_groups, get_ticket_states,
\* get_priorities.
Fetch(at, path, field, coll, next) ==
    /\ pc = at
    /\ \E resp \in GetResponses :
        /\ Request("GET", NoId, [path |-> path, id |-> NoId], EmptyDict, resp)
        /\ IF RequestFails(resp)
           THEN FailRequest(resp) /\ UNCHANGED local
           ELSE /\ pc' = next
                /\ local' = [local EXCEPT ![field] = coll]
                /\ UNCHANGED result
    /\ UNCHANGED << roundtrip, module, check_mode, params, remote, run, history >>

\* run_module up to the first call: check mode exits with the initial result.
Start ==
    /\ pc = "start"
    /\ IF check_mode
       THEN pc' = "done"
       ELSE pc' = IF module = "zammad_ticket" THEN "get_users" ELSE "change_idoit"
    /\ UNCHANGED << roundtrip, module, check_mode, params, remote, local, log, result, run, history >>

GetUsers == Fetch("get_users", "users", "users", UsersColl, "get_groups")
GetGroups == Fetch("get_groups", "groups", "groups", GroupsColl, "get_ticket_states")
GetTicketStates ==
    Fetch("get_ticket_states", "ticket_states", "ticket_states", TicketStatesColl,
          "get_priorities")
\* run_module going on to its branch without the priorities fetch.
GetPrioritiesSkipped ==
    /\ pc = "get_priorities"
    /\ pc' = "validate"
    /\ UNCHANGED << roundtrip, module, check_mode, params, remote, local, log,
                    result, run, history >>

GetPriorities ==
    Fetch("get_priorities", "ticket_priorities", "priorities", PrioritiesColl,
          "validate")

\* The fields Create requires.
CreateRequired ==
    {"customer", "title", "group", "subject", "body", "ticket_state", "priority"}

\* validate_params: all(module.params[param] for param in required_params).
\* The zammad_access check of validate_params is not modelled: the
\* credentials are always supplied.
validate_params(p, required_params) ==
    \A param \in required_params :
        IF param = "ticket_id" THEN p.ticket_id # NoId ELSE Truthy(p[param])

\* The branch of run_module and its validate_params call, after the four
\* reference-data fetches.
Validate ==
    /\ pc = "validate"
    /\ IF params.state = "present" /\ params.ticket_id # NoId
       THEN IF validate_params(params, {"ticket_id"})
            THEN pc' = "get_ticket" /\ UNCHANGED result
            ELSE Fail("Missing required paramters", 0, NoId)
       ELSE IF params.state = "present"
       THEN IF validate_params(params, CreateRequired)
            THEN pc' = "create_ticket" /\ UNCHANGED result
            ELSE Fail("Missing required paramters", 0, NoId)
       ELSE IF validate_params(params, {"ticket_id"})
            THEN pc' = "get_ticket" /\ UNCHANGED result
            ELSE Fail("Missing required paramters", 0, NoId)
    /\ UNCHANGED << roundtrip, module, check_mode, params, remote, local, log, run, history >>

\* get_ticket, in the update and in the close branch.
GetTicket ==
    /\ pc = "get_ticket"
    /\ \E resp \in GetResponses :
        /\ Request("GET", params.ticket_id, NoEndpoint, EmptyDict, resp)
        /\ IF RequestFails(resp)
           THEN FailRequest(resp) /\ UNCHANGED local
           ELSE /\ pc' = IF params.state = "present" THEN "get_ticket_articles"
                         ELSE "close_ticket"
                /\ local' = [local EXCEPT !.ticket_data = remote.ticket]
                /\ UNCHANGED result
    /\ UNCHANGED << roundtrip, module, check_mode, params, remote, run, history >>

GetTicketArticles ==
    /\ pc = "get_ticket_articles"
    /\ \E resp \in GetResponses :
        /\ Request("GET", NoId,
                   [path |-> "ticket_articles/by_ticket", id |-> params.ticket_id],
                   EmptyDict, resp)
        /\ IF RequestFails(resp)
           THEN FailRequest(resp) /\ UNCHANGED local
           ELSE /\ pc' = "update_ticket"
                /\ local' = [local EXCEPT !.ticket_articles = remote.articles]
                /\ UNCHANGED result
    /\ UNCHANGED << roundtrip, module, check_mode, params, remote, run, history >>

\* current_ticket_data of the update branch.
CurrentTicketData(l) ==
    [owner |-> get_owner_name(l.ticket_data, l.users),
     customer |-> get_customer_email(l.ticket_data, l.users),
     title |-> l.ticket_data.title,
     group |-> get_group_name(l.ticket_data, l.groups),
     subject |-> get_last_article_data(l.ticket_articles, "subject"),
     body |-> get_last_article_data(l.ticket_articles, "body"),
     internal |-> StrLower(get_last_article_data(l.ticket_articles, "internal")),
     ticket_state |-> get_ticket_state_name(l.ticket_data, l.ticket_states),
     priority |-> get_priority_name(l.ticket_data, l.priorities)]

\* ticket_data (the desired state) of the update branch.
DesiredTicketData(p) ==
    [owner |-> p.owner, customer |-> p.customer, title |-> p.title,
     group |-> p.group, subject |-> p.subject, body |-> p.body,
     internal |-> StrLower(p.internal), ticket_state |-> p.ticket_state,
     priority |-> p.priority]

\* Whether the update branch finds a change.
UpdateHasChanges(l, p) == has_changes(CurrentTicketData(l), DesiredTicketData(p))

\* The update branch from the comparison on: no change exits unchanged, a
\* change resolves the owner id (ValueError) and issues the PUT.
UpdateTicket ==
    /\ pc = "update_ticket"
    /\ IF ~UpdateHasChanges(local, params)
       THEN /\ Exit(FALSE, params.ticket_id, result.status_code, "No changes required.")
            /\ UNCHANGED << log, remote >>
       ELSE IF get_owner_id_raises(params.owner)
       THEN FailValueError /\ UNCHANGED << log, remote >>
       ELSE LET data == update_ticket_data(
                            get_owner_id(params.owner, local.users), params.customer,
                            params.title, params.group, params.subject, params.body,
                            params.internal, params.ticket_state, params.priority)
            IN  \E resp \in WriteResponses :
                    /\ Request("PUT", params.ticket_id, NoEndpoint, data, resp)
                    /\ remote' = IF ~RemoteAccepts(resp) THEN remote
                                 ELSE ApplyPut(remote, Url(params.ticket_id, NoEndpoint), data)
                    /\ IF RequestFails(resp)
                       THEN FailRequest(resp)
                       ELSE Exit(TRUE, params.ticket_id, resp.status,
                                 "Ticket updated successfully.")
    /\ UNCHANGED << roundtrip, module, check_mode, params, local, run, history >>

\* The create branch after validation.
CreateTicket ==
    /\ pc = "create_ticket"
    /\ IF get_owner_id_raises(params.owner)
       THEN FailValueError /\ UNCHANGED << log, remote >>
       ELSE LET data == create_ticket_data(
                            get_owner_id(params.owner, local.users), params.customer,
                            params.title, params.group, params.subject, params.body,
                            params.internal, params.ticket_state, params.priority)
            IN  \E resp \in WriteResponses :
                    /\ Request("POST", NoId, NoEndpoint, data, resp)
                    /\ remote' = IF ~RemoteAccepts(resp) THEN remote ELSE ApplyPost(remote, data)
                    /\ IF RequestFails(resp)
                       THEN FailRequest(resp)
                       ELSE Exit(TRUE, remote'.last_id, resp.status,
                                 "Ticket created successfully.")
    /\ UNCHANGED << roundtrip, module, check_mode, params, local, run, history >>

\* Whether the close branch finds a change.
CloseHasChanges(l, p) ==
    has_changes([ticket_state |-> get_ticket_state_name(l.ticket_data, l.ticket_states)],
                [ticket_state |-> p.ticket_state])

\* The close branch from the comparison on.
CloseTicket ==
    /\ pc = "close_ticket"
    /\ IF ~CloseHasChanges(local, params)
       THEN /\ Exit(FALSE, params.ticket_id, result.status_code, "Ticket is already closed.")
            /\ UNCHANGED << log, remote >>
       ELSE \E resp \in WriteResponses :
                /\ Request("PUT", params.ticket_id, NoEndpoint, close_ticket_data, resp)
                /\ remote' = IF ~RemoteAccepts(resp) THEN remote
                             ELSE ApplyPut(remote, Url(params.ticket_id, NoEndpoint),
                                           close_ticket_data)
                /\ IF RequestFails(resp)
                   THEN FailRequest(resp)
                   ELSE Exit(TRUE, params.ticket_id, resp.status,
                             "Ticket closed successfully.")
    /\ UNCHANGED << roundtrip, module, check_mode, params, local, run, history >>

\* run_module of zammad_ticket_idoit: one PUT, then exit_json(**result) with
\* the result as initialised.
ChangeIdoitObject ==
    /\ pc = "change_idoit"
    /\ LET data == change_idoit_object_data(params.object_id)
       IN  \E resp \in WriteResponses :
               /\ Request("PUT", params.ticket_id, NoEndpoint, data, resp)
               /\ remote' = IF ~RemoteAccepts(resp) THEN remote
                            ELSE ApplyPut(remote, Url(params.ticket_id, NoEndpoint), data)
               /\ IF RequestFails(resp)
                  THEN FailRequest(resp)
                  ELSE pc' = "done" /\ UNCHANGED result
    /\ UNCHANGED << roundtrip, module, check_mode, params, local, run, history >>

\* The write calls (POST, PUT) among the calls of a log.
Writes(calls) == { i \in 1..Len(calls) : calls[i].method \in {"POST", "PUT"} }

\* The task runs again with the same parameters, after an invocation that
\* succeeded (a failed task ends the play).  The history keeps whether the
\* invocation reported a change and how many writes it issued.
Reinvoke ==
    /\ pc = "done"
    /\ run < MaxRuns
    /\ history' = Append(history, [changed |-> result.changed,
                                   writes |-> Cardinality(Writes(log))])
    /\ run' = run + 1
    /\ pc' = "start"
    /\ local' = InitLocal
    /\ log' = <<>>
    /\ result' = InitResult
    /\ UNCHANGED << roundtrip, module, check_mode, params, remote >>

Next ==
    \/ Start
    \/ GetUsers
    \/ GetGroups
    \/ GetTicketStates
    \/ GetPriorities
    \/ Validate
    \/ GetTicket
    \/ GetTicketArticles
    \/ UpdateTicket
    \/ CreateTicket
    \/ CloseTicket
    \/ ChangeIdoitObject
    \/ Reinvoke

Spec == Init /\ [][Next]_vars

\* ------------------------------------------------- the owner round trip
\* get_owner_name followed by get_owner_id on the name it returned, for
\* every users collection and every owner id of the collection.
NameChars == {"a", " "}

\* The strings of length n over NameChars.
RECURSIVE StringsOfLen(_)
StringsOfLen(n) ==
    IF n = 0 THEN { <<>> }
    ELSE { Append(w, c) : w \in StringsOfLen(n - 1), c \in NameChars }

Names == UNION { StringsOfLen(n) : n \in 0..MaxNameLen }

\* The round trip starts from the remote's users collection, which holds
\* the users in the order they were registered.
InitOwner ==
    /\ roundtrip = [users |-> <<>>, owner_id |-> NoId, at |-> "users",
                    name |-> NoOwner, raised |-> FALSE, id |-> NoId]
    /\ module = "none"
    /\ check_mode = FALSE
    /\ params \in { p \in CloseParams : p.ticket_id = NoId /\ p.ticket_state = None }
    /\ remote = RemoteOf(1, 1, 1, 1, FALSE, <<>>)
    /\ pc = "none"
    /\ local = InitLocal
    /\ log = <<>>
    /\ result = InitResult
    /\ run = 1
    /\ history = <<>>

\* A user is registered: the user at position i of the collection has id i.
RegisterUser ==
    /\ roundtrip.at = "users"
    /\ Len(roundtrip.users) < MaxUsers
    /\ \E f \in Names, l \in Names :
          roundtrip' = [roundtrip EXCEPT
              !.users = Append(@, [id |-> Len(@) + 1, firstname |-> f,
                                   lastname |-> l, email |-> "c1"])]
    /\ UNCHANGED << module, check_mode, params, remote, pc, local, log, result, run, history >>

\* A ticket is owned by one of the users of the collection.
ChooseOwner ==
    /\ roundtrip.at = "users"
    /\ \E oid \in 1..Len(roundtrip.users) :
          roundtrip' = [roundtrip EXCEPT !.owner_id = oid, !.at = "start"]
    /\ UNCHANGED << module, check_mode, params, remote, pc, local, log, result, run, history >>

\* The display name of the owner: get_owner_name on a ticket with the id.
OwnerName ==
    /\ roundtrip.at = "start"
    /\ roundtrip' = [roundtrip EXCEPT
            !.name = get_owner_name([owner_id |-> roundtrip.owner_id], roundtrip.users),
            !.at = "named"]
    /\ UNCHANGED << module, check_mode, params, remote, pc, local, log, result, run, history >>

\* The id get_owner_id resolves the display name to, or its ValueError.
OwnerId ==
    /\ roundtrip.at = "named"
    /\ roundtrip' = [roundtrip EXCEPT
            !.raised = get_owner_id_raises(roundtrip.name),
            !.id = IF get_owner_id_raises(roundtrip.name) THEN NoId
                   ELSE get_owner_id(roundtrip.name, roundtrip.users),
            !.at = "resolved"]
    /\ UNCHANGED << module, check_mode, params, remote, pc, local, log, result, run, history >>

NextOwner ==
    \/ RegisterUser
    \/ ChooseOwner
    \/ OwnerName
    \/ OwnerId

SpecOwner == InitOwner /\ [][NextOwner]_vars

\* ================================================================ claims
\* The invocation is one of zammad_ticket that is not in check mode.
TicketRun == module = "zammad_ticket" /\ ~check_mode
IsCreate == TicketRun /\ params.state = "present" /\ params.ticket_id = NoId
IsUpdate == TicketRun /\ params.state = "present" /\ params.ticket_id # NoId
IsClose == TicketRun /\ params.state = "absent"
IsIdoit == module = "zammad_ticket_idoit" /\ ~check_mode

\* The invocation has ended.
Ended == pc \in {"done", "failed"}

\* The PUT and POST calls of the running invocation.
Puts == { i \in 1..Len(log) : log[i].method = "PUT" }
Posts == { i \in 1..Len(log) : log[i].method = "POST" }

\* Every response of the running invocation had a status below 400.
AllBelow400 == \A i \in 1..Len(log) : log[i].status < 400
\* Every response body of the running invocation parsed as JSON.
AllParsed == \A i \in 1..Len(log) : log[i].json_ok

\* A field the selected operation requires is missing.
MissingRequired ==
    \/ IsCreate /\ \E f \in CreateRequired : ~Truthy(params[f])
    \/ IsClose /\ params.ticket_id = NoId

\* C1: an invocation missing a field its operation requires fails with the
\* validation error, and no network call has been issued when it fails.
C1_ValidationBeforeAnyCall ==
    MissingRequired =>
        /\ Len(log) = 0
        /\ Ended => pc = "failed" /\ result.message = "Missing required paramters"

\* The update branch has fetched the ticket and its articles and has ended:
\* the comparison has been made.
UpdateCompared == IsUpdate /\ Ended /\ Len(local.ticket_articles) > 0

\* C2: after an Update that reported a change (its PUT applied by the
\* remote), the next invocation with the same parameters issues no write and
\* reports changed=false.
C2_UpdateIdempotent ==
    (IsUpdate /\ run > 1 /\ history[run - 1].changed) =>
        /\ Puts \cup Posts = {}
        /\ pc = "done" => ~result.changed

\* The caller supplies ticket_state and no other ticket field.
OnlyTicketState ==
    /\ params.ticket_state # None
    /\ params.owner = NoOwner
    /\ \A f \in {"customer", "title", "group", "subject", "body", "priority"} :
          params[f] = None
    /\ params.internal = FALSE

\* C3: an Update that supplies only ticket_state, equal to the remote
\* ticket's resolved state name, issues no PUT and reports changed=false.
C3_SameStateNoPut ==
    ( /\ UpdateCompared
      /\ OnlyTicketState
      /\ params.ticket_state
            = get_ticket_state_name(local.ticket_data, TicketStatesColl) ) =>
        /\ Puts = {}
        /\ ~result.changed

\* The close branch has fetched the ticket and has exited.
CloseDone == IsClose /\ pc = "done"
\* The state name the close branch resolved for the ticket.
CloseCurrent == get_ticket_state_name(local.ticket_data, TicketStatesColl)
\* The desired state of a Close: the supplied ticket_state, else "closed".
CloseDesired == IF params.ticket_state = None THEN "closed" ELSE params.ticket_state

\* C4: a Close whose ticket is in the desired state issues no write and
\* reports changed=false; otherwise it issues exactly one PUT setting state
\* to "closed" and reports changed=true.
C4_CloseWritesUnlessDesired ==
    CloseDone =>
        IF CloseCurrent = CloseDesired
        THEN Puts \cup Posts = {} /\ ~result.changed
        ELSE /\ Cardinality(Puts) = 1 /\ Posts = {}
             /\ \A i \in Puts : log[i].data = [state |-> "closed"]
             /\ result.changed

\* C5: a Close of a ticket that is already "closed" issues no write and
\* reports changed=false, whatever ticket_state the caller supplies; so does
\* the Close that follows a Close that wrote.
C5_CloseIdempotent ==
    /\ (CloseDone /\ CloseCurrent = "closed") =>
          Puts \cup Posts = {} /\ ~result.changed
    /\ (IsClose /\ run > 1 /\ history[run - 1].changed) =>
          /\ Puts \cup Posts = {}
          /\ pc = "done" => ~result.changed

\* C6: a zammad_ticket_idoit invocation whose response has a status below
\* 400 has issued exactly one PUT to the ticket with the object id, and
\* reports changed=true, the ticket id and the response status.
C6_IdoitReportsChanged ==
    (IsIdoit /\ pc = "done") =>
        /\ Len(log) = 1
        /\ log[1].method = "PUT"
        /\ log[1].url = [path |-> "tickets", id |-> params.ticket_id]
        /\ log[1].data = [preferences |->
                            [idoit |-> [object_ids |-> << params.object_id >>]]]
        /\ result.changed
        /\ result.ticket_id = params.ticket_id
        /\ result.status_code = log[1].status

\* The last call of the running invocation.
LastCall == log[Len(log)]

\* Some key that is non-null in the desired state differs from the resolved
\* remote value.
C7_ChangeExists ==
    LET desired == DesiredTicketData(params)
        current == CurrentTicketData(local)
    IN  \/ desired.owner # NoOwner /\ current.owner # desired.owner
        \/ \E key \in DOMAIN desired \ {"owner"} :
              desired[key] # None /\ current[key] # desired[key]

\* C7 as stated, for the invocations whose responses all have a status
\* below 400 and parse: an Update with a change issues exactly one PUT and
\* reports changed=true; one without issues no write and reports
\* changed=false with the message "No changes required."
C7_Original ==
    (UpdateCompared /\ AllBelow400 /\ AllParsed) =>
        IF C7_ChangeExists
        THEN Cardinality(Puts) = 1 /\ Posts = {} /\ result.changed
        ELSE /\ Puts \cup Posts = {}
             /\ ~result.changed
             /\ result.message = "No changes required."

\* C7, amended: an Update without a change issues no write and reports
\* changed=false with the message "No changes required."; one with a change
\* issues exactly one PUT, and reports changed=true exactly when the PUT's
\* response has a status below 400 and parses, unless the supplied owner
\* name does not split into two parts: then it fails without a write.
C7_UpdateWritesIffChange ==
    UpdateCompared =>
        IF ~C7_ChangeExists
        THEN /\ pc = "done"
             /\ Puts \cup Posts = {}
             /\ ~result.changed
             /\ result.message = "No changes required."
        ELSE IF params.owner # NoOwner /\ Len(Split1(params.owner)) # 2
        THEN pc = "failed" /\ Puts \cup Posts = {} /\ ~result.changed
        ELSE /\ Cardinality(Puts) = 1 /\ Posts = {}
             /\ LastCall.method = "PUT"
             /\ result.changed <=> (LastCall.status < 400 /\ LastCall.json_ok)

C7_Witness ==
    /\ UpdateCompared /\ C7_ChangeExists /\ pc = "done"
    /\ result.changed /\ Cardinality(Puts) = 1

\* A Create with every required field has ended.
CreateEnded == IsCreate /\ validate_params(params, CreateRequired) /\ Ended

\* What C8 says of a Create: one POST to tickets/, no PUT, changed=true, the
\* id of the POST response and its status.
CreateReported ==
    /\ pc = "done"
    /\ Cardinality(Posts) = 1 /\ Puts = {}
    /\ LastCall.method = "POST"
    /\ LastCall.url = [path |-> "tickets/", id |-> NoId]
    /\ result.changed
    /\ result.ticket_id = remote.last_id
    /\ result.status_code = LastCall.status

\* C8 as stated, for the invocations whose responses all parse: a Create
\* with every required field and every response below 400 issues one POST
\* and reports changed=true, the created id and the POST's status.
C8_Original == (CreateEnded /\ AllBelow400 /\ AllParsed) => CreateReported

\* C8, amended: ... provided also that every response body parses as JSON
\* and a supplied owner name splits into two parts.
C8_CreatePostsOnce ==
    ( /\ CreateEnded /\ AllBelow400 /\ AllParsed
      /\ params.owner # NoOwner => Len(Split1(params.owner)) = 2 ) => CreateReported

C8_Witness == CreateEnded /\ CreateReported /\ params.owner # NoOwner

\* C9: a call answered with a status >= 400 is the last call of its
\* invocation, which has failed with that status code.
C9_ApiErrorEnds ==
    \A i \in 1..Len(log) :
        log[i].status >= 400 =>
            /\ i = Len(log)
            /\ pc = "failed"
            /\ result.failed
            /\ result.status_code = log[i].status

C9_Witness ==
    /\ pc = "failed" /\ Len(log) = 5
    /\ LastCall.url = [path |-> "tickets", id |-> TicketId]
    /\ LastCall.method = "GET" /\ LastCall.status = 404
    /\ result.status_code = 404

\* Number of whitespace-separated words of s from position i on; a string
\* of n >= 1 words has n - 1 internal whitespace boundaries.
RECURSIVE WordCount(_, _)
WordCount(s, i) ==
    LET b == SkipSpace(s, i)
    IN  IF b > Len(s) THEN 0 ELSE 1 + WordCount(s, SkipWord(s, b))

\* The round trip has been made from a display name with exactly one
\* internal whitespace boundary.
RoundTripMade == roundtrip.at = "resolved" /\ WordCount(roundtrip.name, 1) = 2
RoundTripUser == roundtrip.users[roundtrip.owner_id]
RoundTripOk == ~roundtrip.raised /\ roundtrip.id = roundtrip.owner_id

GetsOk(n) ==
    /\ Len(log) >= n
    /\ \A i \in 1..n :
          log[i].method = "GET" /\ log[i].status < 400 /\ log[i].json_ok

\* The four reference-data fetches have completed.
ReferenceDataFetched ==
    /\ GetsOk(4)
    /\ { log[i].url.path : i \in 1..4 }
          = {"users", "groups", "ticket_states", "ticket_priorities"}

\* The invocation is at, or past, its comparison of the remote state with
\* the desired state (the update and the close branch).
AtComparison ==
    \/ pc \in {"update_ticket", "close_ticket"}
    \/ Ended /\ Len(log) > 4 /\ log[5].status < 400 /\ log[5].json_ok
             /\ (params.state = "present" =>
                    Len(log) > 5 /\ log[6].status < 400 /\ log[6].json_ok)

\* C11: the calls of a zammad_ticket invocation are GETs followed by at most
\* one write, which is the last call and ends the invocation; the four
\* reference-data fetches have completed before the comparison of the remote
\* state and before the write.
C11_GetsThenOneWrite ==
    module = "zammad_ticket" =>
        /\ Cardinality(Puts \cup Posts) <= 1
        /\ \A i \in 1..Len(log) :
              IF i < Len(log) THEN log[i].method = "GET"
              ELSE log[i].method \in {"GET", "POST", "PUT"}
        /\ (Puts \cup Posts # {}) => Ended /\ ReferenceDataFetched
        /\ AtComparison => ReferenceDataFetched

C11_Witness ==
    /\ module = "zammad_ticket" /\ pc = "done"
    /\ Len(log) = 7 /\ Puts = {7}
    /\ ReferenceDataFetched

\* The running invocation has fetched the ticket.
TicketFetched == TicketRun /\ DOMAIN local.ticket_data # {}

\* The keys of the fetched ticket whose id has no entry in its collection.
DanglingKeys ==
    LET t == local.ticket_data
    IN  (IF FirstById(local.users, t.owner_id, 1) = 0 THEN {"owner"} ELSE {})
        \cup (IF FirstById(local.users, t.customer_id, 1) = 0 THEN {"customer"} ELSE {})
        \cup (IF FirstById(local.groups, t.group_id, 1) = 0 THEN {"group"} ELSE {})
        \cup (IF FirstById(local.ticket_states, t.state_id, 1) = 0
              THEN {"ticket_state"} ELSE {})
        \cup (IF FirstById(local.priorities, t.priority_id, 1) = 0
              THEN {"priority"} ELSE {})

\* The value the invocation resolves for a foreign key of the fetched ticket.
Resolved(key) ==
    CASE key = "owner" -> get_owner_name(local.ticket_data, local.users)
      [] key = "customer" -> get_customer_email(local.ticket_data, local.users)
      [] key = "group" -> get_group_name(local.ticket_data, local.groups)
      [] key = "ticket_state" ->
            get_ticket_state_name(local.ticket_data, local.ticket_states)
      [] key = "priority" -> get_priority_name(local.ticket_data, local.priorities)

\* The last call is a write whose request failed.
WriteFailed ==
    /\ Len(log) > 0 /\ LastCall.method \in {"PUT", "POST"}
    /\ (LastCall.status >= 400 \/ ~LastCall.json_ok)

\* The supplied owner name has two parts and matches no fetched user.
OwnerUnmatched ==
    /\ params.owner # NoOwner
    /\ ~get_owner_id_raises(params.owner)
    /\ FirstByName(local.users, Split1(params.owner)[1],
                   Split1(params.owner)[2], 1) = 0

\* C12: an id with no entry in its collection resolves to an absent value;
\* an Update or Close of a ticket with such an id fails only on a failed
\* write request or on the owner parameter's ValueError; the absent value
\* differs from every non-null desired value, so the write is issued; an
\* owner name that matches no user puts no owner_id into the payload.
C12_MissingIdIsAbsent ==
    /\ TicketFetched =>
          \A key \in DanglingKeys : IsNone(key, Resolved(key))
    /\ (UpdateCompared /\ DanglingKeys # {}) =>
          /\ pc = "failed" =>
                \/ get_owner_id_raises(params.owner) /\ Puts = {}
                \/ WriteFailed
          /\ \A key \in DanglingKeys :
                ~IsNone(key, DesiredTicketData(params)[key]) =>
                    /\ UpdateHasChanges(local, params)
                    /\ Puts # {} \/ get_owner_id_raises(params.owner)
    /\ (IsClose /\ Ended /\ TicketFetched /\ DanglingKeys # {}) =>
          /\ pc = "failed" => WriteFailed
          /\ ("ticket_state" \in DanglingKeys /\ params.ticket_state # None) =>
                Puts # {}
    /\ (TicketRun /\ OwnerUnmatched /\ Puts \cup Posts # {}) =>
          /\ "owner_id" \notin DOMAIN LastCall.data
          /\ pc = "failed" => WriteFailed

C12_Witness ==
    /\ UpdateCompared /\ pc = "done" /\ result.changed
    /\ DanglingKeys = {"owner", "customer", "group", "ticket_state", "priority"}
    /\ params.group = "g1"
    /\ OwnerUnmatched
    /\ Puts = {7}

\* The supplied owner name has no whitespace-separated second part.
OwnerWithoutSecondPart ==
    params.owner # NoOwner /\ WordCount(params.owner, 1) < 2

\* The ended invocation reached its get_owner_id call: a Create that passed
\* its fetches and validation, an Update that compared and found a change.
ReachedOwnerResolution ==
    \/ IsCreate /\ Ended /\ ReferenceDataFetched /\ ~MissingRequired
    \/ UpdateCompared /\ UpdateHasChanges(local, params)

\* C13: with an owner name that has no second part, a Create or Update
\* issues no POST and no PUT, and one that reached owner-id resolution has
\* ended as a failure with changed=false.
C13_OwnerWithoutSecondPartFails ==
    ((IsCreate \/ IsUpdate) /\ OwnerWithoutSecondPart) =>
        /\ Puts \cup Posts = {}
        /\ ReachedOwnerResolution =>
              /\ pc = "failed"
              /\ result.failed /\ ~result.changed
              /\ result.message = "ValueError"

C13_Witness ==
    /\ IsCreate /\ ReachedOwnerResolution
    /\ params.owner = <<" ">>
    /\ pc = "failed" /\ Len(log) = 4

====
